---- MODULE Spec2Model ----
(***************************************************************************)
(* Model of the agent loop of ollama_agent_toolkit: Memory (memory.py),    *)
(* Agent (agent.py) and the generation backend seen through                *)
(* OllamaClient.chat (ollama_client.py).                                   *)
(*                                                                         *)
(* Texts are sequences of tokens.  A token is one character ("{", "}",     *)
(* the backslash, the double quote, ":", ",", " ", "s") or an indivisible  *)
(* run of letters that does not begin with s ("tool", "parameters", ...).  *)
(* A content is a text body followed by `pad` further filler words, each   *)
(* preceded by one blank: this is how a message of thousands of words is   *)
(* written down without spelling it out.                                   *)
(*                                                                         *)
(* Memory.token_count is a Python float.  It is modelled as an IEEE-754    *)
(* binary64 value: sign, integer part and a 52 bit fraction kept in two    *)
(* 26 bit halves, with round-to-nearest-even after every operation.        *)
(***************************************************************************)
EXTENDS Integers, Sequences, FiniteSets, TLC

VARIABLES
    messages,       \* Memory.messages: sequence of [role, content]
    token_count,    \* Memory.token_count (binary64)
    max_tokens,     \* Memory.max_tokens
    system_prompt,  \* Agent.system_prompt
    personality,    \* ChatAgent.personality; None on a plain Agent
    tools,          \* Agent.tools: sequence of Tool records
    pc,             \* where process_user_input stands
    local,          \* the locals of the running process_user_input
    obs             \* what the caller and the collaborators have observed

vars == <<messages, token_count, max_tokens, system_prompt, personality, tools,
         pc, local, obs>>

----------------------------------------------------------------------------
(* binary64 arithmetic, as far as memory.py uses it *)

\* 2^26: the fraction of a binary64 is kept as f1 * 2^26 + f0, in units of 2^-52
TwoTo26 == 67108864

\* the float literal 1.3 is 0x3FF4CCCCCCCCCCCD = 1 + (F13Hi * 2^26 + F13Lo) * 2^-52
F13Hi == 20132659
F13Lo == 13421773

\* a magnitude: i + (f1 * 2^26 + f0) * 2^-52
Mag(i, f1, f0) == [i |-> i, f1 |-> f1, f0 |-> f0]

MagZero == Mag(0, 0, 0)

MagOf13 == Mag(1, F13Hi, F13Lo)

MagAdd(a, b) ==
    LET s0 == a.f0 + b.f0
        s1 == a.f1 + b.f1 + (s0 \div TwoTo26)
    IN  Mag(a.i + b.i + (s1 \div TwoTo26), s1 % TwoTo26, s0 % TwoTo26)

MagLess(a, b) ==
    \/ a.i < b.i
    \/ a.i = b.i /\ a.f1 < b.f1
    \/ a.i = b.i /\ a.f1 = b.f1 /\ a.f0 < b.f0

\* a - b for b <= a
MagSub(a, b) ==
    LET d0 == a.f0 - b.f0
        b0 == IF d0 < 0 THEN 1 ELSE 0
        d1 == a.f1 - b.f1 - b0
        b1 == IF d1 < 0 THEN 1 ELSE 0
    IN  Mag(a.i - b.i - b1, d1 + b1 * TwoTo26, d0 + b0 * TwoTo26)

RECURSIVE BitLen(_)
BitLen(n) == IF n = 0 THEN 0 ELSE 1 + BitLen(n \div 2)

\* round an exact magnitude to 53 significant bits, ties to even
MagRound(a) ==
    IF a.i = 0 THEN a
    ELSE LET s    == BitLen(a.i) - 1
             unit == 2 ^ s
             r    == a.f0 % unit
             kept == [a EXCEPT !.f0 = a.f0 - r]
             odd  == (a.f0 \div unit) % 2 = 1
             up   == s > 0 /\ (2 * r > unit \/ (2 * r = unit /\ odd))
         IN  IF up THEN MagAdd(kept, Mag(0, 0, unit)) ELSE kept

\* the exact product n * 1.3 (as the double 1.3), n a natural number
RECURSIVE MagTimes13(_)
MagTimes13(n) ==
    IF n = 0 THEN MagZero
    ELSE LET h == MagTimes13(n \div 2)
             d == MagAdd(h, h)
         IN  IF n % 2 = 1 THEN MagAdd(d, MagOf13) ELSE d

Float(neg, m) == [neg |-> neg, i |-> m.i, f1 |-> m.f1, f0 |-> m.f0]

FMag(x) == Mag(x.i, x.f1, x.f0)

\* token_count = 0
FZero == Float(FALSE, MagZero)

\* n * 1.3
FTimes13(n) == Float(FALSE, MagRound(MagTimes13(n)))

FNeg(x) == IF FMag(x) = MagZero THEN x ELSE [x EXCEPT !.neg = ~x.neg]

\* x + y
FAdd(x, y) ==
    IF x.neg = y.neg THEN Float(x.neg, MagRound(MagAdd(FMag(x), FMag(y))))
    ELSE IF FMag(x) = FMag(y) THEN FZero
    ELSE IF MagLess(FMag(x), FMag(y))
         THEN Float(y.neg, MagRound(MagSub(FMag(y), FMag(x))))
         ELSE Float(x.neg, MagRound(MagSub(FMag(x), FMag(y))))

\* x - y
FSub(x, y) == FAdd(x, FNeg(y))

\* x > n for a float x and an int n
FGtInt(x, n) ==
    IF x.neg THEN n < 0 /\ x.i < -n
    ELSE n < 0 \/ x.i > n \/ (x.i = n /\ (x.f1 > 0 \/ x.f0 > 0))

----------------------------------------------------------------------------
(* texts *)

BS == "\\"

DQ == "\""

Whitespace == {" "}

\* a str: `body` followed by `pad` filler words, each after one blank
Text(body, pad) == [body |-> body, pad |-> pad]

RECURSIVE Words(_, _)
Words(t, inWord) ==
    IF t = <<>> THEN 0
    ELSE IF Head(t) \in Whitespace THEN Words(Tail(t), FALSE)
    ELSE (IF inWord THEN 0 ELSE 1) + Words(Tail(t), TRUE)

\* len(content.split())
WordCount(content) == Words(content.body, FALSE) + content.pad

\* str.replace(old, ""): every non-overlapping occurrence, left to right
RECURSIVE ReplaceAll(_, _)
ReplaceAll(t, old) ==
    IF old = <<>> \/ Len(t) < Len(old) THEN t
    ELSE IF SubSeq(t, 1, Len(old)) = old
         THEN ReplaceAll(SubSeq(t, Len(old) + 1, Len(t)), old)
         ELSE <<Head(t)>> \o ReplaceAll(Tail(t), old)

----------------------------------------------------------------------------
(* re.search with the pattern of _extract_tool_call *)

Lit(c) == [kind |-> "lit", set |-> {c}]

\* c*
Star(c) == [kind |-> "star", set |-> {c}]

\* [^c]+
PlusNot(c) == [kind |-> "plusnot", set |-> {c}]

\* the pattern with single backslashes: \s* is any number of blanks, and
\* the quotes, braces, colon and comma stand for themselves
json_pattern_unescaped ==
    << Lit("{"), Star(" "), Lit(DQ), Lit("tool"), Lit(DQ), Star(" "), Lit(":"),
       Star(" "), Lit(DQ), PlusNot(DQ), Lit(DQ), Star(" "), Lit(","),
       Star(" "), Lit(DQ), Lit("parameters"), Lit(DQ), Star(" "), Lit(":"),
       Star(" "), Lit("{"), PlusNot("}"), Lit("}"), Star(" "), Lit("}") >>

\* the raw string of line 73: in it \{ is a brace, \" a quote, and \\s* is a
\* backslash followed by any number of the letter s; \\{ and \\} are a
\* backslash followed by a brace
json_pattern ==
    << Lit("{"), Lit(BS), Star("s"), Lit(DQ), Lit("tool"), Lit(DQ),
       Lit(BS), Star("s"), Lit(":"),
       Lit(BS), Star("s"), Lit(DQ), PlusNot(DQ), Lit(DQ),
       Lit(BS), Star("s"), Lit(","),
       Lit(BS), Star("s"), Lit(DQ), Lit("parameters"), Lit(DQ),
       Lit(BS), Star("s"), Lit(":"),
       Lit(BS), Star("s"), Lit(BS), Lit("{"), PlusNot("}"), Lit(BS), Lit("}"),
       Lit(BS), Star("s"), Lit(BS), Lit("}") >>

Fits(e, x) == IF e.kind = "plusnot" THEN x \notin e.set ELSE x \in e.set

\* the length of the longest run of tokens fitting e that starts at t[i]
RECURSIVE RunLen(_, _, _)
RunLen(e, t, i) ==
    IF i <= Len(t) /\ Fits(e, t[i]) THEN 1 + RunLen(e, t, i + 1) ELSE 0

\* pat[p..] matched at t[i..], greedy with backtracking: the index after the
\* match, or 0 when there is none
RECURSIVE MatchAt(_, _, _, _)
RECURSIVE TryRep(_, _, _, _, _, _)
MatchAt(pat, p, t, i) ==
    IF p > Len(pat) THEN i
    ELSE IF pat[p].kind = "lit"
         THEN IF i <= Len(t) /\ Fits(pat[p], t[i])
              THEN MatchAt(pat, p + 1, t, i + 1) ELSE 0
         ELSE TryRep(pat, p, t, i, RunLen(pat[p], t, i),
                     IF pat[p].kind = "star" THEN 0 ELSE 1)

TryRep(pat, p, t, i, j, least) ==
    IF j < least THEN 0
    ELSE LET r == MatchAt(pat, p + 1, t, i + j)
         IN  IF r # 0 THEN r ELSE TryRep(pat, p, t, i, j - 1, least)

NoMatch == [found |-> FALSE, start |-> 0, end |-> 0]

RECURSIVE SearchFrom(_, _, _)
SearchFrom(pat, t, i) ==
    IF i > Len(t) THEN NoMatch
    ELSE LET r == MatchAt(pat, 1, t, i)
         IN  IF r # 0 THEN [found |-> TRUE, start |-> i, end |-> r]
             ELSE SearchFrom(pat, t, i + 1)

\* re.search(pat, t): the leftmost match, t[start .. end-1]
Search(pat, t) == SearchFrom(pat, t, 1)

----------------------------------------------------------------------------
(* json.loads, for the texts a match can hand to it: objects whose values  *)
(* are strings or objects.  A decoded value is [t, v]: a str with its      *)
(* tokens, a dict with its <<key, value>> pairs in order, or None.         *)

None == [t |-> "none", v |-> <<>>]

Str(v) == [t |-> "str", v |-> v]

Dict(v) == [t |-> "dict", v |-> v]

\* the decoder's answer: the value and the index after it, or a JSONDecodeError
Decoded(val, next) == [ok |-> TRUE, val |-> val, next |-> next]

JSONDecodeError == [ok |-> FALSE, val |-> None, next |-> 0]

\* the letter runs of the backend's responses whose first letter makes a
\* JSON escape after a backslash (b f n r t u)
EscapeRuns == {"tool"}

RECURSIVE SkipWs(_, _)
SkipWs(t, i) == IF i <= Len(t) /\ t[i] \in Whitespace THEN SkipWs(t, i + 1) ELSE i

\* the inside of a string, from t[i], up to the closing quote
RECURSIVE ScanString(_, _, _)
ScanString(t, i, acc) ==
    IF i > Len(t) THEN JSONDecodeError
    ELSE IF t[i] = DQ THEN Decoded(Str(acc), i + 1)
    ELSE IF t[i] = BS
         THEN IF i + 1 > Len(t) THEN JSONDecodeError
              ELSE IF t[i + 1] \in {DQ, BS}
                   THEN ScanString(t, i + 2, Append(acc, t[i + 1]))
              ELSE IF t[i + 1] \in EscapeRuns
                   THEN ScanString(t, i + 2, acc \o <<"<ctrl>", t[i + 1]>>)
              ELSE JSONDecodeError
    ELSE ScanString(t, i + 1, Append(acc, t[i]))

RECURSIVE ParseValue(_, _)
RECURSIVE ParseMembers(_, _, _)
ParseValue(t, i) ==
    IF i > Len(t) THEN JSONDecodeError
    ELSE IF t[i] = DQ THEN ScanString(t, i + 1, <<>>)
    ELSE IF t[i] = "{"
         THEN LET j == SkipWs(t, i + 1)
              IN  IF j <= Len(t) /\ t[j] = "}" THEN Decoded(Dict(<<>>), j + 1)
                  ELSE ParseMembers(t, j, <<>>)
    ELSE JSONDecodeError

\* "key" : value , ... } from t[i], which must be the quote of a key
ParseMembers(t, i, acc) ==
    IF i > Len(t) \/ t[i] # DQ THEN JSONDecodeError
    ELSE LET key == ScanString(t, i + 1, <<>>)
             c   == SkipWs(t, key.next)
         IN  IF ~key.ok \/ c > Len(t) \/ t[c] # ":" THEN JSONDecodeError
             ELSE LET val == ParseValue(t, SkipWs(t, c + 1))
                      e   == SkipWs(t, val.next)
                      all == Append(acc, <<key.val.v, val.val>>)
                  IN  IF ~val.ok \/ e > Len(t) THEN JSONDecodeError
                      ELSE IF t[e] = "}" THEN Decoded(Dict(all), e + 1)
                      ELSE IF t[e] = ","
                           THEN ParseMembers(t, SkipWs(t, e + 1), all)
                      ELSE JSONDecodeError

\* json.loads(t)
JsonLoads(t) ==
    LET r == ParseValue(t, SkipWs(t, 1))
    IN  IF r.ok /\ SkipWs(t, r.next) = Len(t) + 1 THEN r ELSE JSONDecodeError

\* d.get(key, default): the last pair with that key wins
RECURSIVE DictGet(_, _, _)
DictGet(pairs, key, default) ==
    IF pairs = <<>> THEN default
    ELSE LET last == pairs[Len(pairs)]
         IN  IF last[1] = key THEN last[2]
             ELSE DictGet(SubSeq(pairs, 1, Len(pairs) - 1), key, default)

\* bool(x) of a decoded value
Truthy(x) == x.t # "none" /\ x.v # <<>>

\* the extractor removing what the pattern matched although it did not decode
ExtractWithStrips(pat, response) ==
    LET m        == Search(pat, response.body)
        json_str == SubSeq(response.body, m.start, m.end - 1)
        d        == JsonLoads(json_str)
    IN  IF m.found /\ d.ok
        THEN [tool_name  |-> DictGet(d.val.v, <<"tool">>, None),
              parameters |-> DictGet(d.val.v, <<"parameters">>, Dict(<<>>)),
              cleaned    |-> Text(ReplaceAll(response.body, json_str), response.pad)]
        ELSE [tool_name |-> None, parameters |-> None,
              cleaned |-> IF m.found
                          THEN Text(ReplaceAll(response.body, json_str), response.pad)
                          ELSE response]

\* lines 74-90 of Agent._extract_tool_call, for a pattern:
\* (tool_name, parameters, cleaned_response)
ExtractWith(pat, response) ==
    LET m        == Search(pat, response.body)
        json_str == SubSeq(response.body, m.start, m.end - 1)
        d        == JsonLoads(json_str)
    IN  IF m.found /\ d.ok
        THEN [tool_name  |-> DictGet(d.val.v, <<"tool">>, None),
              parameters |-> DictGet(d.val.v, <<"parameters">>, Dict(<<>>)),
              cleaned    |-> Text(ReplaceAll(response.body, json_str), response.pad)]
        ELSE [tool_name |-> None, parameters |-> None, cleaned |-> response]

\* Agent._extract_tool_call
ExtractToolCall(response) == ExtractWith(json_pattern, response)

\* the format the default system prompt tells the model to answer in (line 57):
\* {"tool":"tool_name","parameters":{"param1":"value1","param2":"value2"}},
\* blanks allowed between its parts
WirePattern ==
    << Lit("{"), Star(" "), Lit(DQ), Lit("tool"), Lit(DQ), Star(" "), Lit(":"),
       Star(" "), Lit(DQ), PlusNot(DQ), Lit(DQ), Star(" "), Lit(","),
       Star(" "), Lit(DQ), Lit("parameters"), Lit(DQ), Star(" "), Lit(":"),
       Star(" "), Lit("{"), PlusNot("}"), Lit("}"), Star(" "), Lit("}") >>

\* the tool call a response holds in that format, if it holds one
WireCallOf(response) == ExtractWith(WirePattern, response)

----------------------------------------------------------------------------
(* memory.py.  A Message is its role and content; the timestamp is left    *)
(* out, nothing reads it.                                                  *)

Message(role, content) == [role |-> role, content |-> content]

\* Memory.__init__'s default max_tokens
DefaultMaxTokens == 16000

\* Memory(max_tokens)
NewMemory(max) == [messages |-> <<>>, max_tokens |-> max, token_count |-> FZero]

\* len(message.content.split()) * 1.3
Cost(message) == FTimes13(WordCount(message.content))

\* _prune_if_needed with `> 2` for `> 3`
RECURSIVE PruneKeepsTwo(_)
PruneKeepsTwo(m) ==
    IF FGtInt(m.token_count, m.max_tokens) /\ Len(m.messages) > 2
    THEN PruneKeepsTwo([m EXCEPT !.messages = Tail(@),
                                 !.token_count = FSub(@, Cost(Head(m.messages)))])
    ELSE m

\* _prune_if_needed with `if` for `while`
PruneOnce(m) ==
    IF FGtInt(m.token_count, m.max_tokens) /\ Len(m.messages) > 3
    THEN [m EXCEPT !.messages = Tail(@),
                   !.token_count = FSub(@, Cost(Head(m.messages)))]
    ELSE m

\* _prune_if_needed with pop() for pop(0)
RECURSIVE PrunePopsNewest(_)
PrunePopsNewest(m) ==
    IF FGtInt(m.token_count, m.max_tokens) /\ Len(m.messages) > 3
    THEN PrunePopsNewest(
            [m EXCEPT !.messages = SubSeq(@, 1, Len(@) - 1),
                      !.token_count = FSub(@, Cost(m.messages[Len(m.messages)]))])
    ELSE m

\* _prune_if_needed without the floor of 3 messages
RECURSIVE PruneNoFloor(_)
PruneNoFloor(m) ==
    IF FGtInt(m.token_count, m.max_tokens) /\ Len(m.messages) > 0
    THEN PruneNoFloor([m EXCEPT !.messages = Tail(@),
                                !.token_count = FSub(@, Cost(Head(m.messages)))])
    ELSE m

\* _prune_if_needed with pop(1) for pop(0)
RECURSIVE PruneFromMiddle(_)
PruneFromMiddle(m) ==
    IF FGtInt(m.token_count, m.max_tokens) /\ Len(m.messages) > 3
    THEN PruneFromMiddle(
            [m EXCEPT !.messages = <<Head(@)>> \o Tail(Tail(@)),
                      !.token_count = FSub(@, Cost(m.messages[2]))])
    ELSE m

\* _prune_if_needed evicting down to 3 messages whatever the budget
RECURSIVE PruneIgnoresBudget(_)
PruneIgnoresBudget(m) ==
    IF Len(m.messages) > 3
    THEN PruneIgnoresBudget([m EXCEPT !.messages = Tail(@),
                                      !.token_count = FSub(@, Cost(Head(m.messages)))])
    ELSE m

\* Memory._prune_if_needed
RECURSIVE PruneIfNeeded(_)
PruneIfNeeded(m) ==
    IF FGtInt(m.token_count, m.max_tokens) /\ Len(m.messages) > 3
    THEN PruneIfNeeded([m EXCEPT !.messages = Tail(@),
                                 !.token_count = FSub(@, Cost(Head(m.messages)))])
    ELSE m

\* Memory.add_message
AddMessage(m, role, content) ==
    PruneIfNeeded([m EXCEPT !.messages = Append(@, Message(role, content)),
                            !.token_count = FAdd(@, Cost(Message(role, content)))])

\* Memory.get_last_n_messages: self.messages[-n:] as chat messages.  The
\* slice starts n from the end when n > 0 and at the front when n = 0 (-0 is
\* 0); for n < 0 it starts -n from the front.
GetLastNMessages(m, n) ==
    LET len   == Len(m.messages)
        first == IF n > 0 THEN (IF len - n > 0 THEN len - n ELSE 0)
                 ELSE (IF -n < len THEN -n ELSE len)
    IN  [k \in 1..(len - first) |->
            [role |-> m.messages[first + k].role,
             content |-> m.messages[first + k].content]]

\* get_chat_messages leaving the system messages out
GetChatMessagesNoSystem(m) ==
    LET kept == SelectSeq(m.messages, LAMBDA msg : msg.role # "system")
    IN  [k \in 1..Len(kept) |-> [role |-> kept[k].role, content |-> kept[k].content]]

\* Memory.get_chat_messages
GetChatMessages(m) ==
    [k \in 1..Len(m.messages) |->
        [role |-> m.messages[k].role, content |-> m.messages[k].content]]

\* clear without `self.token_count = 0`
ClearKeepsCount(m) == [m EXCEPT !.messages = <<>>]

\* Memory.clear
Clear(m) == [m EXCEPT !.messages = <<>>, !.token_count = FZero]

\* did add_message(role, content) on m remove anything
Evicts(m, role, content) ==
    Len(AddMessage(m, role, content).messages) # Len(m.messages) + 1

----------------------------------------------------------------------------
(* tools.py and Agent._execute_tool.  A tool is its name, the keyword      *)
(* names its function requires and allows, whether the function raises,    *)
(* and the text it returns (or the text of what it raises).                *)

Tool(name, required, optional, raises, out) ==
    [name |-> name, required |-> required, optional |-> optional,
     raises |-> raises, out |-> out]

Keys(parameters) == {parameters.v[k][1] : k \in 1..Len(parameters.v)}

\* str(e) of the TypeError of a call whose keywords do not fit
TypeErrorText == Text(<<"unexpected", " ", "keyword", " ", "argument">>, 0)

\* str(e) of the TypeError of a call whose keywords are not a mapping
NotMappingText == Text(<<"argument", " ", "must", " ", "be", " ", "a", " ", "mapping">>, 0)

\* str(e) of the TypeError of a call that lacks a required argument
MissingArgumentText == Text(<<"missing", " ", "required", " ", "argument">>, 0)

\* tool(**parameters), Tool.__call__: what it returns or raises, and
\* whether the tool's function ran
CallTool(tool, parameters) ==
    IF parameters.t # "dict"
    THEN [raised |-> TRUE, text |-> NotMappingText, ran |-> FALSE]
    ELSE IF ~(Keys(parameters) \subseteq tool.required \cup tool.optional)
    THEN [raised |-> TRUE, text |-> TypeErrorText, ran |-> FALSE]
    ELSE IF ~(tool.required \subseteq Keys(parameters))
    THEN [raised |-> TRUE, text |-> MissingArgumentText, ran |-> FALSE]
    ELSE [raised |-> tool.raises, text |-> tool.out, ran |-> TRUE]

\* f"Error executing tool '{tool_name}': {str(e)}"
ErrorText(tool_name, cause) ==
    Text(<<"Error", " ", "executing", " ", "tool", " ", "'">> \o tool_name.v
            \o <<"'", ":", " ">> \o cause.body, cause.pad)

\* f"Unknown tool: {tool_name}"
UnknownText(tool_name) ==
    Text(<<"Unknown", " ", "tool", ":", " ">> \o tool_name.v, 0)

\* f"Tool '{tool_name}' output: {tool_response}"
ToolOutputText(tool_name, tool_response) ==
    Text(<<"Tool", " ", "'">> \o tool_name.v \o <<"'", " ", "output", ":", " ">>
            \o tool_response.body, tool_response.pad)

\* the index of the first tool of tls named tool_name.v, 0 if there is none
FirstNamed(tls, tool_name) ==
    IF \E i \in 1..Len(tls) : tls[i].name = tool_name.v
    THEN CHOOSE i \in 1..Len(tls) :
            /\ tls[i].name = tool_name.v
            /\ \A j \in 1..(i - 1) : tls[j].name # tool_name.v
    ELSE 0

\* _execute_tool falling back on the first tool when none has the name
ExecuteToolFallsBack(tls, tool_name, parameters) ==
    LET i == IF FirstNamed(tls, tool_name) = 0 THEN 1 ELSE FirstNamed(tls, tool_name)
        r == CallTool(tls[i], parameters)
    IN  [text   |-> IF r.raised THEN ErrorText(tool_name, r.text) ELSE r.text,
         ran    |-> IF r.ran THEN <<tls[i].name>> ELSE <<>>,
         raised |-> FALSE]

\* _execute_tool without its try/except: what the tool raises escapes
ExecuteToolUnguarded(tls, tool_name, parameters) ==
    LET i == FirstNamed(tls, tool_name)
        r == CallTool(tls[i], parameters)
    IN  IF i = 0
        THEN [text |-> UnknownText(tool_name), ran |-> <<>>, raised |-> FALSE]
        ELSE [text   |-> r.text,
              ran    |-> IF r.ran THEN <<tls[i].name>> ELSE <<>>,
              raised |-> r.raised]

\* Agent._execute_tool: the returned text, the tools whose function ran, and
\* whether an exception leaves it (the except clause of line 160 catches
\* what tool(**parameters) raises)
RECURSIVE ExecuteTool(_, _, _)
ExecuteTool(tls, tool_name, parameters) ==
    IF tls = <<>>
    THEN [text |-> UnknownText(tool_name), ran |-> <<>>, raised |-> FALSE]
    ELSE IF tool_name.t = "str" /\ Head(tls).name = tool_name.v
         THEN LET r == CallTool(Head(tls), parameters)
              IN  [text   |-> IF r.raised THEN ErrorText(tool_name, r.text) ELSE r.text,
                   ran    |-> IF r.ran THEN <<Head(tls).name>> ELSE <<>>,
                   raised |-> FALSE]
         ELSE ExecuteTool(Tail(tls), tool_name, parameters)

----------------------------------------------------------------------------
(* agent.py: Agent.process_user_input and Agent.reset, as functions of the *)
(* memory.  A step yields the memory, where the call stands next, the      *)
(* message list it sends to the backend (if it sends one), the tool        *)
(* executions it made, and what it returns or raises.                      *)

EmptyText == Text(<<>>, 0)

NoLocals == [user_input |-> EmptyText, tool_name |-> None, tool_response |-> EmptyText]

\* lines 101-111: up to the first client.chat
BeforePrimary(mem, user_input) ==
    LET m == AddMessage(mem, "user", user_input)
    IN  [mem      |-> m,
         pc       |-> "chat_primary",
         local    |-> [NoLocals EXCEPT !.user_input = user_input],
         request  |-> <<GetChatMessages(m)>>,
         execs    |-> <<>>,
         ret      |-> <<>>,
         raised   |-> FALSE,
         appended |-> <<Message("user", user_input)>>,
         evicted  |-> Evicts(mem, "user", user_input)]

\* the no-tool branch without its add_message
NoToolBranchForgets(mem, response) ==
    [mem      |-> mem,
     pc       |-> "idle",
     local    |-> NoLocals,
     request  |-> <<>>,
     execs    |-> <<>>,
     ret      |-> <<response>>,
     raised   |-> FALSE,
     appended |-> <<>>,
     evicted  |-> FALSE]

\* the no-tool branch asking the backend again instead of returning
NoToolBranchAsksAgain(mem, response) ==
    [mem      |-> AddMessage(mem, "assistant", response),
     pc       |-> "chat_primary",
     local    |-> NoLocals,
     request  |-> <<GetChatMessages(AddMessage(mem, "assistant", response))>>,
     execs    |-> <<>>,
     ret      |-> <<>>,
     raised   |-> FALSE,
     appended |-> <<Message("assistant", response)>>,
     evicted  |-> Evicts(mem, "assistant", response)]

\* the no-tool branch never leaving the handler
NoToolBranchHangs(mem, response) ==
    [mem      |-> mem,
     pc       |-> "hung",
     local    |-> NoLocals,
     request  |-> <<>>,
     execs    |-> <<>>,
     ret      |-> <<>>,
     raised   |-> FALSE,
     appended |-> <<>>,
     evicted  |-> FALSE]

\* lines 141-144: the response holds no tool call
NoToolBranch(mem, response) ==
    [mem      |-> AddMessage(mem, "assistant", response),
     pc       |-> "idle",
     local    |-> NoLocals,
     request  |-> <<>>,
     execs    |-> <<>>,
     ret      |-> <<response>>,
     raised   |-> FALSE,
     appended |-> <<Message("assistant", response)>>,
     evicted  |-> Evicts(mem, "assistant", response)]

\* lines 113-144: from the first client.chat's return on
AfterPrimary(mem, tls, loc, response) ==
    LET call == ExtractToolCall(response)
    IN  IF Truthy(call.tool_name)
        THEN LET done == ExecuteTool(tls, call.tool_name, call.parameters)
                 note == ToolOutputText(call.tool_name, done.text)
                 m1   == AddMessage(mem, "assistant", call.cleaned)
                 m2   == AddMessage(m1, "system", note)
             IN  [mem      |-> m2,
                  pc       |-> "chat_followup",
                  local    |-> [loc EXCEPT !.tool_name = call.tool_name,
                                           !.tool_response = done.text],
                  request  |-> <<GetChatMessages(m2)>>,
                  execs    |-> <<[tool_name  |-> call.tool_name,
                                  parameters |-> call.parameters,
                                  ran        |-> done.ran,
                                  result     |-> done.text,
                                  memory     |-> mem.messages]>>,
                  ret      |-> <<>>,
                  raised   |-> FALSE,
                  appended |-> <<Message("assistant", call.cleaned),
                                 Message("system", note)>>,
                  evicted  |-> Evicts(mem, "assistant", call.cleaned)
                                  \/ Evicts(m1, "system", note)]
        ELSE NoToolBranch(mem, response)

\* lines 133-140: from the second client.chat's return on
AfterFollowup(mem, final_response) ==
    [mem      |-> AddMessage(mem, "assistant", final_response),
     pc       |-> "idle",
     local    |-> NoLocals,
     request  |-> <<>>,
     execs    |-> <<>>,
     ret      |-> <<final_response>>,
     raised   |-> FALSE,
     appended |-> <<Message("assistant", final_response)>>,
     evicted  |-> Evicts(mem, "assistant", final_response)]

\* a handler that records the error as the assistant's message before raising
AfterChatErrorRecords(mem) ==
    [mem      |-> AddMessage(mem, "assistant", Text(<<"Error">>, 0)),
     pc       |-> "idle",
     local    |-> NoLocals,
     request  |-> <<>>,
     execs    |-> <<>>,
     ret      |-> <<>>,
     raised   |-> TRUE,
     appended |-> <<Message("assistant", Text(<<"Error">>, 0))>>,
     evicted  |-> Evicts(mem, "assistant", Text(<<"Error">>, 0))]

\* a handler that swallows the error and returns an empty response
AfterChatErrorSwallows(mem) ==
    [mem      |-> mem,
     pc       |-> "idle",
     local    |-> NoLocals,
     request  |-> <<>>,
     execs    |-> <<>>,
     ret      |-> <<EmptyText>>,
     raised   |-> FALSE,
     appended |-> <<>>,
     evicted  |-> FALSE]

\* client.chat raises (ollama_client.py line 107, or requests.post itself):
\* nothing in process_user_input catches it
AfterChatError(mem) ==
    [mem      |-> mem,
     pc       |-> "idle",
     local    |-> NoLocals,
     request  |-> <<>>,
     execs    |-> <<>>,
     ret      |-> <<>>,
     raised   |-> TRUE,
     appended |-> <<>>,
     evicted  |-> FALSE]

\* process_user_input(user_input) run from its call to its return, the
\* backend answering with replies in turn: the memory it leaves
RunTurn(mem, tls, user_input, replies) ==
    LET b == BeforePrimary(mem, user_input)
        a == AfterPrimary(b.mem, tls, b.local, replies[1])
    IN  IF a.pc = "chat_followup" THEN AfterFollowup(a.mem, replies[2]).mem ELSE a.mem

\* Agent.reset
AgentReset(mem, prompt) == AddMessage(Clear(mem), "system", prompt)

\* Agent.__init__: self.memory = Memory(), then the system prompt is added
AgentMemory(prompt) == AddMessage(NewMemory(DefaultMaxTokens), "system", prompt)

----------------------------------------------------------------------------
(* bounds and inputs *)

\* calls of process_user_input in one run
MaxTurns == 3

\* filler words of a long input or response
BigPad == 7000

\* operations on a Memory used on its own
MaxOps == 5

\* words of a message appended to a Memory used on its own
MaxWords == 3

\* largest max_tokens of a Memory used on its own (the smallest is -1)
MaxBudget == 2

Calc == Tool(<<"calc">>, {<<"x">>}, {}, FALSE, Text(<<"Result", ":", " ", "four">>, 0))

Broken == Tool(<<"fetch">>, {}, {<<"x">>}, TRUE, Text(<<"no", " ", "route">>, 0))

Registries == {<<Calc, Broken>>, <<Broken>>}

Prompts == {Text(<<"You", " ", "are", " ", "helpful">>, 0)}

UserInputs == {Text(<<"hi">>, 0), Text(<<"compute", " ", "x">>, BigPad)}

\* I will {"tool":"calc","parameters":{"x":"v"}}
WireCall ==
    Text(<<"I", " ", "will", " ",
           "{", DQ, "tool", DQ, ":", DQ, "calc", DQ, ",", DQ, "parameters", DQ, ":",
           "{", DQ, "x", DQ, ":", DQ, "v", DQ, "}", "}">>, 0)

\* {\"tool"\:\"calc"\,\"parameters"\:\\{"x":"v"\}\\} done
EscapedCall ==
    Text(<<"{", BS, DQ, "tool", DQ, BS, ":", BS, DQ, "calc", DQ, BS, ",",
           BS, DQ, "parameters", DQ, BS, ":", BS, BS,
           "{", DQ, "x", DQ, ":", DQ, "v", DQ, BS, "}", BS, BS, "}",
           " ", "done">>, 0)

Responses == {Text(<<"ok">>, 0), Text(<<"ok">>, BigPad), WireCall, EscapedCall}

----------------------------------------------------------------------------
(* the state machine *)

Mem == [messages |-> messages, max_tokens |-> max_tokens, token_count |-> token_count]

SetMem(m) ==
    /\ messages' = m.messages
    /\ max_tokens' = m.max_tokens
    /\ token_count' = m.token_count

NoTurn == [outcome |-> "none", input |-> EmptyText, pre |-> <<>>, evicted |-> FALSE]

\* obs: the last operation (op), the operations and turns so far, and of the
\* current turn: the memory before it (pre), its input, the message lists sent
\* to the backend (calls), the backend's replies, the tool executions, how it
\* ended (outcome, value) and whether an append evicted; the turn before it
\* (prev); every message appended since the last clear (log); what has
\* happened since construction (seen); and the system_prompt and personality
\* the last change_personality found (before)
ObsInit(log) ==
    [op |-> "init", ops |-> 0, turns |-> 0,
     pre |-> <<>>, input |-> EmptyText, calls |-> <<>>, replies |-> <<>>,
     execs |-> <<>>, outcome |-> "none", value |-> <<>>, evicted |-> FALSE,
     prev |-> NoTurn, log |-> log, seen |-> {}, before |-> <<>>]

Events(r) ==
    (IF r.evicted THEN {"evicted"} ELSE {})
        \cup (IF r.raised THEN {"raised"} ELSE {})
        \cup (IF r.ret # <<>> THEN {"returned"} ELSE {})
        \cup (IF r.execs # <<>> THEN {"tool"} ELSE {})

\* the effect of a step of process_user_input
Take(r, op, reply) ==
    /\ SetMem(r.mem)
    /\ pc' = r.pc
    /\ local' = r.local
    /\ obs' = [obs EXCEPT !.op = op,
                          !.calls = @ \o r.request,
                          !.replies = @ \o reply,
                          !.execs = @ \o r.execs,
                          !.outcome = IF r.raised THEN "raised"
                                      ELSE IF r.ret # <<>> THEN "returned" ELSE "none",
                          !.value = r.ret,
                          !.evicted = @ \/ r.evicted,
                          !.log = @ \o r.appended,
                          !.seen = @ \cup Events(r)]
    /\ UNCHANGED <<system_prompt, personality, tools>>

\* Agent(system_prompt = prompt, tools = tls)
Init ==
    /\ system_prompt \in Prompts
    /\ tools \in Registries
    /\ messages = AgentMemory(system_prompt).messages
    /\ token_count = AgentMemory(system_prompt).token_count
    /\ max_tokens = AgentMemory(system_prompt).max_tokens
    /\ pc = "idle"
    /\ personality = None
    /\ local = NoLocals
    /\ obs = ObsInit(<<Message("system", system_prompt)>>)

\* the caller calls agent.process_user_input(user_input), which runs up to
\* its first client.chat
ProcessUserInput(user_input) ==
    /\ pc = "idle"
    /\ obs.turns < MaxTurns
    /\ LET r == BeforePrimary(Mem, user_input)
       IN  /\ SetMem(r.mem)
           /\ pc' = r.pc
           /\ local' = r.local
           /\ obs' = [obs EXCEPT !.op = "process_user_input",
                                 !.turns = @ + 1,
                                 !.pre = messages,
                                 !.input = user_input,
                                 !.calls = r.request,
                                 !.replies = <<>>,
                                 !.execs = <<>>,
                                 !.outcome = "none",
                                 !.value = <<>>,
                                 !.evicted = r.evicted,
                                 !.prev = [outcome |-> obs.outcome, input |-> obs.input,
                                           pre |-> obs.pre, evicted |-> obs.evicted],
                                 !.log = @ \o r.appended,
                                 !.seen = @ \cup Events(r)]
    /\ UNCHANGED <<system_prompt, personality, tools>>

\* the pending client.chat returns response
ChatReturns(response) ==
    /\ pc \in {"chat_primary", "chat_followup"}
    /\ Take(IF pc = "chat_primary" THEN AfterPrimary(Mem, tools, local, response)
                                   ELSE AfterFollowup(Mem, response),
            "chat_returns", <<response>>)

\* the pending client.chat raises
ChatRaises ==
    /\ pc \in {"chat_primary", "chat_followup"}
    /\ Take(AfterChatError(Mem), "chat_raises", <<>>)

\* the caller calls agent.reset()
Reset ==
    /\ pc = "idle"
    /\ SetMem(AgentReset(Mem, system_prompt))
    /\ obs' = [ObsInit(<<Message("system", system_prompt)>>)
                  EXCEPT !.op = "reset", !.turns = obs.turns,
                         !.seen = obs.seen \cup {"reset"}]
    /\ UNCHANGED <<system_prompt, personality, tools, pc, local>>

Next ==
    \/ \E user_input \in UserInputs : ProcessUserInput(user_input)
    \/ \E response \in Responses : ChatReturns(response)
    \/ ChatRaises
    \/ Reset

Spec == Init /\ [][Next]_vars

----------------------------------------------------------------------------
(* a Memory used on its own, as in memory.py's example *)

\* a content of n words
WordsText(n) == Text(<<>>, n)

MemInit ==
    /\ max_tokens \in (-1)..MaxBudget
    /\ messages = <<>>
    /\ token_count = FZero
    /\ system_prompt = EmptyText
    /\ tools = <<>>
    /\ pc = "idle"
    /\ personality = None
    /\ local = NoLocals
    /\ obs = ObsInit(<<>>)

\* memory.add_message(role, content)
MemAdd(role, content) ==
    /\ obs.ops < MaxOps
    /\ SetMem(AddMessage(Mem, role, content))
    /\ obs' = [obs EXCEPT !.op = "add_message", !.ops = @ + 1,
                          !.pre = messages,
                          !.evicted = Evicts(Mem, role, content),
                          !.log = Append(@, Message(role, content)),
                          !.seen = @ \cup (IF Evicts(Mem, role, content)
                                           THEN {"evicted"} ELSE {})]
    /\ UNCHANGED <<system_prompt, personality, tools, pc, local>>

\* memory.clear()
MemClear ==
    /\ obs.ops < MaxOps
    /\ SetMem(Clear(Mem))
    /\ obs' = [obs EXCEPT !.op = "clear", !.ops = @ + 1, !.pre = messages,
                          !.evicted = FALSE, !.log = <<>>,
                          !.seen = @ \cup {"clear"}]
    /\ UNCHANGED <<system_prompt, personality, tools, pc, local>>

MemNext ==
    \/ \E n \in 0..MaxWords : MemAdd("user", WordsText(n))
    \/ MemClear

MemSpec == MemInit /\ [][MemNext]_vars

----------------------------------------------------------------------------
(* one turn of an agent whose backend answers with any of a family of      *)
(* texts: what _extract_tool_call makes of each, and what the turn does    *)
(* with it                                                                 *)

\* turns of an agent whose backend answers from ParseTexts
ParseTurns == 1

\* {"tool":"<name>","parameters":{"x":"v"}}
WireJson(name) ==
    <<"{", DQ, "tool", DQ, ":", DQ, name, DQ, ",", DQ, "parameters", DQ, ":",
      "{", DQ, "x", DQ, ":", DQ, "v", DQ, "}", "}">>

\* { "tool" : "calc" , "parameters" : { "x" : "v" } }
SpacedJson ==
    <<"{", " ", DQ, "tool", DQ, " ", ":", " ", DQ, "calc", DQ, " ", ",", " ",
      DQ, "parameters", DQ, " ", ":", " ",
      "{", " ", DQ, "x", DQ, " ", ":", " ", DQ, "v", DQ, " ", "}", " ", "}">>

\* {\"tool"\:\"calc"\,\"parameters"\:\\{"x":"v"\}\\}
EscapedJson ==
    <<"{", BS, DQ, "tool", DQ, BS, ":", BS, DQ, "calc", DQ, BS, ",",
      BS, DQ, "parameters", DQ, BS, ":", BS, BS,
      "{", DQ, "x", DQ, ":", DQ, "v", DQ, BS, "}", BS, BS, "}">>

\* {"tool":"calc","parameters":{x}}
BadJson ==
    <<"{", DQ, "tool", DQ, ":", DQ, "calc", DQ, ",", DQ, "parameters", DQ, ":",
      "{", "x", "}", "}">>

\* {"tool":"calc"}
ToolOnlyJson == <<"{", DQ, "tool", DQ, ":", DQ, "calc", DQ, "}">>

ParseLeads == {<<>>, <<"I", " ", "will", " ">>}

ParseCores ==
    {WireJson("calc"), WireJson("fetch"), SpacedJson, EscapedJson, BadJson,
     ToolOnlyJson, <<"ok">>, <<"{", "ok", "}">>}

ParseGaps == {<<>>, <<" ", "then", " ">>}

ParseTails == {<<>>, <<"done">>, WireJson("calc")}

ParseTexts ==
    {Text(lead \o core \o gap \o tail, 0) :
        lead \in ParseLeads, core \in ParseCores,
        gap \in ParseGaps, tail \in ParseTails}

ParseTurn ==
    /\ obs.turns < ParseTurns
    /\ ProcessUserInput(Text(<<"hi">>, 0))

ParseNext ==
    \/ ParseTurn
    \/ \E response \in ParseTexts : ChatReturns(response)

ParseSpec == Init /\ [][ParseNext]_vars

----------------------------------------------------------------------------
(* Agent._execute_tool called on an agent built with any of a family of    *)
(* tool lists                                                              *)

\* a second tool registered under the name calc
CalcAgain ==
    Tool(<<"calc">>, {}, {<<"x">>}, FALSE, Text(<<"Result", ":", " ", "five">>, 0))

\* lists the caller passes as tools; Agent.__init__ takes any non-empty list
\* as it comes
ToolLists ==
    Registries \cup {<<Calc>>, <<Broken, Calc>>, <<Calc, CalcAgain>>, <<CalcAgain, Broken, Calc>>}

ToolNames == {Str(<<"calc">>), Str(<<"fetch">>), Str(<<"nope">>), Str(<<"Calc">>)}

ToolParameters ==
    {Dict(<<>>),
     Dict(<< <<<<"x">>, Str(<<"v">>)>> >>),
     Dict(<< <<<<"y">>, Str(<<"v">>)>> >>),
     Dict(<< <<<<"x">>, Str(<<"v">>)>>, <<<<"y">>, Str(<<"w">>)>> >>),
     None}

\* Agent(system_prompt = prompt, tools = tls)
ToolInit ==
    /\ system_prompt \in Prompts
    /\ tools \in ToolLists
    /\ messages = AgentMemory(system_prompt).messages
    /\ token_count = AgentMemory(system_prompt).token_count
    /\ max_tokens = AgentMemory(system_prompt).max_tokens
    /\ pc = "idle"
    /\ personality = None
    /\ local = NoLocals
    /\ obs = ObsInit(<<Message("system", system_prompt)>>)

\* the caller calls agent._execute_tool(tool_name, parameters)
CallExecuteTool(tool_name, parameters) ==
    /\ pc = "idle"
    /\ LET done == ExecuteTool(tools, tool_name, parameters)
       IN  obs' = [obs EXCEPT !.op = "execute_tool",
                              !.execs = <<[tool_name  |-> tool_name,
                                           parameters |-> parameters,
                                           ran        |-> done.ran,
                                           result     |-> done.text,
                                           raised     |-> done.raised,
                                           memory     |-> messages]>>,
                              !.outcome = IF done.raised THEN "raised" ELSE "returned",
                              !.value = IF done.raised THEN <<>> ELSE <<done.text>>]
    /\ UNCHANGED <<messages, token_count, max_tokens,
                 system_prompt, personality, tools, pc, local>>

ToolNext ==
    \E tool_name \in ToolNames, parameters \in ToolParameters :
        CallExecuteTool(tool_name, parameters)

ToolSpec == ToolInit /\ [][ToolNext]_vars

----------------------------------------------------------------------------
(* a Memory of the default budget, appended to and read with               *)
(* get_last_n_messages                                                     *)

\* largest n of a get_last_n_messages(n)
MaxTail == 4

\* Memory()
TailInit ==
    /\ max_tokens = DefaultMaxTokens
    /\ messages = <<>>
    /\ token_count = FZero
    /\ system_prompt = EmptyText
    /\ tools = <<>>
    /\ pc = "idle"
    /\ personality = None
    /\ local = NoLocals
    /\ obs = ObsInit(<<>>)

\* memory.get_last_n_messages(n)
MemTail(n) ==
    /\ obs' = [obs EXCEPT !.op = "get_last_n_messages",
                          !.pre = messages,
                          !.value = <<[n |-> n, result |-> GetLastNMessages(Mem, n)]>>]
    /\ UNCHANGED <<messages, token_count, max_tokens,
                 system_prompt, personality, tools, pc, local>>

TailNext ==
    \/ \E role \in {"user", "assistant"}, n \in 1..2 : MemAdd(role, WordsText(n))
    \/ \E n \in 0..MaxTail : MemTail(n)

TailSpec == TailInit /\ [][TailNext]_vars

----------------------------------------------------------------------------
(* two threads, each calling process_user_input once on the same agent.    *)
(* Nothing in agent.py or memory.py locks: a thread is switched out at     *)
(* least where it blocks in client.chat, so the steps below, each taken    *)
(* whole, are behaviours of the threads.  Here pc and local are per        *)
(* thread, and obs holds per thread the input, the message lists sent, the *)
(* replies and the outcome, with the order in which the threads started.   *)

Threads == {1, 2}

ConcInputs == {Text(<<"hi">>, 0), Text(<<"compute", " ", "x">>, 0)}

ConcResponses == {Text(<<"ok">>, 0), WireCall}

ConcInit ==
    /\ system_prompt \in Prompts
    /\ tools \in Registries
    /\ messages = AgentMemory(system_prompt).messages
    /\ token_count = AgentMemory(system_prompt).token_count
    /\ max_tokens = AgentMemory(system_prompt).max_tokens
    /\ pc = [t \in Threads |-> "idle"]
    /\ personality = None
    /\ local = [t \in Threads |-> NoLocals]
    /\ obs = [op |-> "init", actor |-> 0,
              pre |-> AgentMemory(system_prompt),
              input |-> [t \in Threads |-> EmptyText],
              calls |-> [t \in Threads |-> <<>>],
              replies |-> [t \in Threads |-> <<>>],
              outcome |-> [t \in Threads |-> "none"],
              value |-> [t \in Threads |-> <<>>],
              started |-> <<>>,
              overlapped |-> FALSE]

\* thread t calls agent.process_user_input(user_input), which runs up to its
\* first client.chat
ThreadCalls(t, user_input) ==
    /\ pc[t] = "idle"
    /\ \A k \in 1..Len(obs.started) : obs.started[k] # t
    /\ LET r == BeforePrimary(Mem, user_input)
       IN  /\ SetMem(r.mem)
           /\ pc' = [pc EXCEPT ![t] = r.pc]
           /\ local' = [local EXCEPT ![t] = r.local]
           /\ obs' = [obs EXCEPT !.op = "process_user_input",
                                 !.actor = t,
                                 !.input[t] = user_input,
                                 !.calls[t] = r.request,
                                 !.started = Append(@, t),
                                 !.overlapped =
                                     @ \/ \E u \in Threads \ {t} : pc[u] # "idle"]
    /\ UNCHANGED <<system_prompt, personality, tools>>

\* the effect of a step of thread t's process_user_input
ThreadTakes(t, r, op, reply) ==
    /\ SetMem(r.mem)
    /\ pc' = [pc EXCEPT ![t] = r.pc]
    /\ local' = [local EXCEPT ![t] = r.local]
    /\ obs' = [obs EXCEPT !.op = op,
                          !.actor = t,
                          !.calls[t] = @ \o r.request,
                          !.replies[t] = @ \o reply,
                          !.outcome[t] = IF r.raised THEN "raised"
                                         ELSE IF r.ret # <<>> THEN "returned" ELSE "none",
                          !.value[t] = r.ret]
    /\ UNCHANGED <<system_prompt, personality, tools>>

\* thread t's pending client.chat returns response
ThreadChatReturns(t, response) ==
    /\ pc[t] \in {"chat_primary", "chat_followup"}
    /\ ThreadTakes(t, IF pc[t] = "chat_primary"
                      THEN AfterPrimary(Mem, tools, local[t], response)
                      ELSE AfterFollowup(Mem, response),
                   "chat_returns", <<response>>)

\* thread t's pending client.chat raises
ThreadChatRaises(t) ==
    /\ pc[t] \in {"chat_primary", "chat_followup"}
    /\ ThreadTakes(t, AfterChatError(Mem), "chat_raises", <<>>)

ConcNext ==
    \E t \in Threads :
        \/ \E user_input \in ConcInputs : ThreadCalls(t, user_input)
        \/ \E response \in ConcResponses : ThreadChatReturns(t, response)
        \/ ThreadChatRaises(t)

ConcSpec == ConcInit /\ [][ConcNext]_vars

----------------------------------------------------------------------------
(* two agents in one program.  Each Agent.__init__ makes its own Memory    *)
(* (line 31), so here messages, token_count and max_tokens are indexed by  *)
(* the Memory object and system_prompt, tools, pc and local by the agent.  *)
(* obs holds, per agent, its turns, what has happened to it (seen) and the *)
(* state it has when only its own operations are applied (alone), and the  *)
(* state of every agent before the last operation (before).                *)

\* calls of process_user_input per agent, of two agents
IsoTurns == 1

Agents == {1, 2}

\* self.memory = Memory(): the Memory object of agent a
MemoryOfShared(a) == 1

MemoryOf(a) == a

IsoPrompt(a) ==
    IF a = 1 THEN Text(<<"You", " ", "are", " ", "helpful">>, 0)
             ELSE Text(<<"You", " ", "are", " ", "terse">>, 0)

IsoTools(a) == IF a = 1 THEN <<Calc, Broken>> ELSE <<Broken>>

IsoResponses == {Text(<<"ok">>, 0), WireCall}

\* the Memory object m after the constructors of the agents holding it
RECURSIVE BuiltBy(_, _)
BuiltBy(m, owners) ==
    IF owners = <<>> THEN m
    ELSE BuiltBy(AddMessage(m, "system", IsoPrompt(Head(owners))), Tail(owners))

Holds(a, c) == MemoryOf(a) = c

BuiltMemory(c) ==
    BuiltBy(NewMemory(DefaultMaxTokens),
            SelectSeq(<<1, 2>>, LAMBDA a : Holds(a, c)))

MemAt(a) ==
    [messages    |-> messages[MemoryOf(a)],
     max_tokens  |-> max_tokens[MemoryOf(a)],
     token_count |-> token_count[MemoryOf(a)]]

SetMemAt(a, m) ==
    /\ messages' = [messages EXCEPT ![MemoryOf(a)] = m.messages]
    /\ max_tokens' = [max_tokens EXCEPT ![MemoryOf(a)] = m.max_tokens]
    /\ token_count' = [token_count EXCEPT ![MemoryOf(a)] = m.token_count]

\* what the claims call an agent's state
AgentState(a) ==
    [memory |-> MemAt(a), system_prompt |-> system_prompt[a], tools |-> tools[a]]

\* an operation is applied to the agent's state as it is ("own") and to the
\* state the agent's operations alone have given it ("alone")
Views == {"own", "alone"}

View(a, k) == IF k = "own" THEN AgentState(a) ELSE obs.alone[a]

IsoInit ==
    LET built  == [c \in Agents |-> BuiltMemory(c)]
        states == [a \in Agents |->
                      [memory |-> AgentMemory(IsoPrompt(a)),
                       system_prompt |-> IsoPrompt(a),
                       tools |-> IsoTools(a)]]
    IN  /\ system_prompt = [a \in Agents |-> IsoPrompt(a)]
        /\ tools = [a \in Agents |-> IsoTools(a)]
        /\ messages = [c \in Agents |-> built[c].messages]
        /\ token_count = [c \in Agents |-> built[c].token_count]
        /\ max_tokens = [c \in Agents |-> built[c].max_tokens]
        /\ pc = [a \in Agents |-> "idle"]
        /\ personality = None
        /\ local = [a \in Agents |-> NoLocals]
        /\ obs = [op |-> "init", actor |-> 0,
                  turns |-> [a \in Agents |-> 0],
                  seen |-> [a \in Agents |-> {}],
                  alone |-> states,
                  before |-> states]

\* the effect of a step of agent a with result rs[k] in view k
AgentTakes(a, rs, op) ==
    /\ SetMemAt(a, rs["own"].mem)
    /\ pc' = [pc EXCEPT ![a] = rs["own"].pc]
    /\ local' = [local EXCEPT ![a] = rs["own"].local]
    /\ obs' = [obs EXCEPT !.op = op,
                          !.actor = a,
                          !.turns[a] = IF op = "process_user_input" THEN @ + 1 ELSE @,
                          !.seen[a] = @ \cup Events(rs["own"])
                                        \cup (IF op = "reset" THEN {"reset"} ELSE {}),
                          !.alone[a].memory = rs["alone"].mem,
                          !.before = [b \in Agents |-> AgentState(b)]]
    /\ UNCHANGED <<system_prompt, personality, tools>>

\* the caller calls process_user_input(user_input) on agent a
AgentCalls(a, user_input) ==
    /\ pc[a] = "idle"
    /\ obs.turns[a] < IsoTurns
    /\ AgentTakes(a, [k \in Views |-> BeforePrimary(View(a, k).memory, user_input)],
                  "process_user_input")

\* the pending client.chat of agent a returns response
AgentChatReturns(a, response) ==
    /\ pc[a] \in {"chat_primary", "chat_followup"}
    /\ AgentTakes(a, [k \in Views |->
                        IF pc[a] = "chat_primary"
                        THEN AfterPrimary(View(a, k).memory, View(a, k).tools,
                                          local[a], response)
                        ELSE AfterFollowup(View(a, k).memory, response)],
                  "chat_returns")

\* the pending client.chat of agent a raises
AgentChatRaises(a) ==
    /\ pc[a] \in {"chat_primary", "chat_followup"}
    /\ AgentTakes(a, [k \in Views |-> AfterChatError(View(a, k).memory)],
                  "chat_raises")

\* the caller calls reset() on agent a
AgentResets(a) ==
    /\ pc[a] = "idle"
    /\ AgentTakes(a, [k \in Views |->
                        [mem |-> AgentReset(View(a, k).memory, View(a, k).system_prompt),
                         pc |-> "idle", local |-> NoLocals, evicted |-> FALSE,
                         raised |-> FALSE, ret |-> <<>>, execs |-> <<>>]],
                  "reset")

IsoNext ==
    \E a \in Agents :
        \/ \E user_input \in UserInputs : AgentCalls(a, user_input)
        \/ \E response \in IsoResponses : AgentChatReturns(a, response)
        \/ AgentChatRaises(a)
        \/ AgentResets(a)

IsoSpec == IsoInit /\ [][IsoNext]_vars

----------------------------------------------------------------------------
(* a ChatAgent (examples/chat_agent.py): an Agent with a personality, whose *)
(* caller also calls change_personality between turns                       *)

\* calls of process_user_input in one run of a ChatAgent
ChatTurns == 1

\* the keys of the personalities dict
PersonalityNames == {"friendly", "professional", "creative", "supportive"}

\* the personalities a caller asks for: two of the keys, and one that is no key
PersonalityInputs == {"friendly", "professional", "pirate"}

\* len(prompt.split()) of f"""{selected_personality} ... robotic responses."""
PromptWords(name) ==
    CASE name = "friendly"     -> 87
      [] name = "professional" -> 87
      [] name = "creative"     -> 85
      [] name = "supportive"   -> 83

\* the prompt built around personalities[name]: "You are <name>, ..." and the
\* guidelines, which are the same words for every name
ChatPrompt(name) == Text(<<"You", " ", "are", " ", name>>, PromptWords(name) - 3)

\* personalities.get(personality, personalities["friendly"])
SelectedPersonality(name) == IF name \in PersonalityNames THEN name ELSE "friendly"

\* f"Personality '{new_personality}' not recognized. Available personalities: ..."
NotRecognizedText(name) ==
    Text(<<"Personality", " ", "'", name, "'", " ", "not", " ", "recognized", ".", " ",
           "Available", " ", "personalities", ":", " ", "friendly", ",", " ",
           "professional", ",", " ", "creative", ",", " ", "supportive">>, 0)

\* f"Personality changed to '{new_personality}'."
ChangedText(name) ==
    Text(<<"Personality", " ", "changed", " ", "to", " ", "'", name, "'", ".">>, 0)

\* ChatAgent.change_personality(name) on an agent holding mem and prompt: an
\* unknown name returns at line 74; a known one resets the agent, with the
\* prompt it still has (line 96), then takes the new prompt (line 97) and
\* adds it to the memory (line 98)
PersonalityChanged(mem, prompt, name) ==
    IF name \notin PersonalityNames
    THEN [mem |-> mem, system_prompt |-> prompt, changed |-> FALSE,
          appended |-> <<>>, ret |-> NotRecognizedText(name)]
    ELSE [mem           |-> AddMessage(AgentReset(mem, prompt), "system", ChatPrompt(name)),
          system_prompt |-> ChatPrompt(name),
          changed       |-> TRUE,
          appended      |-> <<Message("system", prompt),
                              Message("system", ChatPrompt(name))>>,
          ret           |-> ChangedText(name)]

\* ChatAgent(personality = p)
ChatInit ==
    /\ personality \in PersonalityInputs
    /\ system_prompt = ChatPrompt(SelectedPersonality(personality))
    /\ tools = <<Calc, Broken>>
    /\ messages = AgentMemory(system_prompt).messages
    /\ token_count = AgentMemory(system_prompt).token_count
    /\ max_tokens = AgentMemory(system_prompt).max_tokens
    /\ pc = "idle"
    /\ local = NoLocals
    /\ obs = ObsInit(<<Message("system", system_prompt)>>)

\* the caller calls agent.change_personality(name)
ChangePersonality(name) ==
    /\ pc = "idle"
    /\ LET r == PersonalityChanged(Mem, system_prompt, name)
       IN  /\ SetMem(r.mem)
           /\ system_prompt' = r.system_prompt
           /\ personality' = IF r.changed THEN name ELSE personality
           /\ obs' = [obs EXCEPT !.op = "change_personality",
                                 !.pre = messages,
                                 !.input = Text(<<name>>, 0),
                                 !.before = <<system_prompt, personality>>,
                                 !.calls = <<>>,
                                 !.replies = <<>>,
                                 !.execs = <<>>,
                                 !.outcome = "returned",
                                 !.value = <<r.ret>>,
                                 !.evicted = FALSE,
                                 !.log = IF r.changed THEN r.appended ELSE @,
                                 !.seen = @ \cup {"change_personality"}]
    /\ UNCHANGED <<tools, pc, local>>

ChatNext ==
    \/ \E user_input \in UserInputs :
            obs.turns < ChatTurns /\ ProcessUserInput(user_input)
    \/ \E response \in Responses : ChatReturns(response)
    \/ ChatRaises
    \/ Reset
    \/ \E name \in PersonalityInputs : ChangePersonality(name)

ChatSpec == ChatInit /\ [][ChatNext]_vars

----------------------------------------------------------------------------

(* the agent with a backend whose every call ends: a pending client.chat   *)
(* returns or raises.  The call can raise for as long as it is pending, so *)
(* the behaviours in which it stays pending for ever are those in which    *)
(* ChatRaises stays enabled and is never taken.                            *)

LiveSpec == Init /\ [][Next]_vars /\ WF_vars(ChatRaises)

----------------------------------------------------------------------------
(* the claims *)

Min(a, b) == IF a < b THEN a ELSE b

User(input) == Message("user", input)

\* s is what is left of t after dropping some of its first elements
IsSuffix(s, t) ==
    Len(s) <= Len(t) /\ s = SubSeq(t, Len(t) - Len(s) + 1, Len(t))

\* C1: a turn whose primary response holds a tool call naming T with
\* parameters P issues exactly two generation calls, executes T exactly once
\* with P, returns the follow-up response and, absent eviction, leaves the
\* memory as the pre-turn memory followed by user(input), assistant(residual),
\* system("Tool 'T' output: <result>"), assistant(follow-up response).
C1_ToolTurn ==
    (obs.outcome = "returned" /\ Truthy(WireCallOf(obs.replies[1]).tool_name)) =>
        LET call == WireCallOf(obs.replies[1])
        IN  /\ Len(obs.calls) = 2
            /\ Len(obs.execs) = 1
            /\ obs.execs[1].tool_name = call.tool_name
            /\ obs.execs[1].parameters = call.parameters
            /\ obs.value = <<obs.replies[2]>>
            /\ ~obs.evicted =>
                 messages = obs.pre \o
                    << User(obs.input),
                       Message("assistant", call.cleaned),
                       Message("system", ToolOutputText(call.tool_name,
                                                        obs.execs[1].result)),
                       Message("assistant", obs.replies[2]) >>

\* C2: a turn whose primary response yields no tool call issues exactly one
\* generation call, executes no tool, returns the response and, absent
\* eviction, leaves the memory as the pre-turn memory followed by user(input)
\* and assistant(response), the response unmodified.
C2_NoToolTurn ==
    (obs.outcome = "returned" /\ ~Truthy(ExtractToolCall(obs.replies[1]).tool_name)) =>
        /\ Len(obs.calls) = 1
        /\ obs.execs = <<>>
        /\ obs.value = <<obs.replies[1]>>
        /\ ~obs.evicted =>
             messages = obs.pre \o << User(obs.input),
                                      Message("assistant", obs.replies[1]) >>

\* a turn has returned a response that matches the pattern and does not
\* decode, recorded as it came
C2_Witness ==
    /\ obs.outcome = "returned"
    /\ obs.replies = <<EscapedCall>>
    /\ ~obs.evicted
    /\ messages[Len(messages)] = Message("assistant", EscapedCall)

C4_RetryOnce ==
    (/\ obs.outcome = "returned"
     /\ obs.prev.outcome = "raised"
     /\ obs.prev.input = obs.input
     /\ ~obs.evicted /\ ~obs.prev.evicted) =>
        LET n == Len(obs.prev.pre)
        IN  /\ Len(messages) > n + 1
            /\ SubSeq(messages, 1, n + 1) = Append(obs.prev.pre, User(obs.input))
            /\ \A k \in n + 2 .. Len(messages) : messages[k].role # "user"

\* C5: a failed generation call is attempted once and never swallowed: every
\* call before it was answered, the turn is over with no value returned, and
\* no tool runs after a failed primary call.  A turn that is over has either
\* returned a response or raised.
C5_FailureSurfaces ==
    /\ obs.op = "chat_raises" => obs.outcome = "raised"
    /\ obs.outcome = "raised" =>
          /\ pc = "idle"
          /\ obs.value = <<>>
          /\ Len(obs.calls) = Len(obs.replies) + 1
          /\ Len(obs.calls) = 1 => obs.execs = <<>>
    /\ obs.outcome = "returned" =>
          /\ pc = "idle"
          /\ Len(obs.value) = 1
          /\ Len(obs.calls) = Len(obs.replies)
    /\ pc # "idle" => obs.outcome = "none"
    /\ (pc = "idle" /\ obs.op \in {"chat_returns", "chat_raises"}) =>
          obs.outcome \in {"returned", "raised"}

\* the primary call of a turn has failed and the caller has the error
C5_Witness ==
    /\ obs.op = "chat_raises"
    /\ obs.outcome = "raised"
    /\ obs.replies = <<>>
    /\ pc = "idle"

\* C6: an append never leaves fewer than 3 messages behind: from L messages
\* it leaves at least min(L + 1, 3), however far token_count is over max_tokens.
C6_KeepsThree ==
    obs.op = "add_message" => Len(messages) >= Min(Len(obs.pre) + 1, 3)

\* an append has evicted down to 3 messages and the memory is still over budget
C6_Witness ==
    /\ obs.op = "add_message"
    /\ obs.evicted
    /\ Len(messages) = 3
    /\ FGtInt(token_count, max_tokens)

\* sum(len(m.content.split()) * 1.3 for m in messages), from 0
RECURSIVE Recount(_)
Recount(msgs) ==
    IF msgs = <<>> THEN FZero
    ELSE FAdd(Recount(SubSeq(msgs, 1, Len(msgs) - 1)), Cost(msgs[Len(msgs)]))

\* C7: after every append, with the eviction it triggers, and after every
\* clear, token_count is the sum over the messages in memory of their word
\* count times 1.3; after clear it is 0.
C7_NoDrift ==
    /\ token_count = Recount(messages)
    /\ obs.op = "clear" => token_count = FZero

\* C8, as claimed: after any mutation, token_count <= max_tokens or the
\* length is exactly 3.
C8_Original ==
    ~FGtInt(token_count, max_tokens) \/ Len(messages) = 3

\* C8, amended: after any mutation, token_count <= max_tokens or the length
\* is at most 3, where no further eviction is possible.
C8_Amended ==
    ~FGtInt(token_count, max_tokens) \/ Len(messages) <= 3

\* a memory over budget that holds one message
C8_Witness ==
    /\ obs.op = "add_message"
    /\ FGtInt(token_count, max_tokens)
    /\ Len(messages) = 1

SystemMessage == Message("system", system_prompt)

\* C9, as claimed: the messages appended first, second and third are still
\* in memory, and the system prompt is the first message of every message
\* list sent to the backend.
C9_Original ==
    /\ \A k \in 1..Min(3, Len(obs.log)) :
          Len(messages) >= k /\ messages[k] = obs.log[k]
    /\ \A j \in 1..Len(obs.calls) : obs.calls[j][1] = SystemMessage

\* C9, amended: eviction never removes the 3 most recently appended
\* messages: the last three appended are in memory, in order.  It removes
\* the oldest first, the system prompt before any other, so the system
\* prompt is the first message of a message list sent to the backend only as
\* long as nothing was evicted since construction or the last reset.
C9_Amended ==
    LET n == Min(3, Len(obs.log))
    IN  /\ Len(messages) >= n
        /\ SubSeq(messages, Len(messages) - n + 1, Len(messages))
              = SubSeq(obs.log, Len(obs.log) - n + 1, Len(obs.log))
        /\ Len(messages) = Len(obs.log) =>
              \A j \in 1..Len(obs.calls) : obs.calls[j][1] = SystemMessage

\* a message list without the system prompt has gone to the backend
C9_Witness ==
    /\ pc = "chat_primary"
    /\ Len(obs.log) > 3
    /\ Len(messages) = 3
    /\ obs.calls[1][1].role = "user"

\* C10: after reset() the memory holds exactly one message, the system
\* message with the agent's system prompt, and token_count is that
\* message's contribution.
C10_Reset ==
    obs.op = "reset" =>
        /\ messages = <<SystemMessage>>
        /\ token_count = Cost(SystemMessage)

\* a reset after turns that returned, a turn that failed and an eviction
C10_Witness ==
    /\ obs.op = "reset"
    /\ {"returned", "raised", "evicted"} \subseteq obs.seen

\* what pat matches first in a text, and what it decodes to
FirstMatch(pat, response) ==
    LET m == Search(pat, response.body)
    IN  IF m.found
        THEN [found  |-> TRUE,
              before |-> SubSeq(response.body, 1, m.start - 1),
              after  |-> SubSeq(response.body, m.end, Len(response.body)),
              json   |-> JsonLoads(SubSeq(response.body, m.start, m.end - 1))]
        ELSE [found |-> FALSE, before |-> response.body, after |-> <<>>,
              json |-> JSONDecodeError]

\* the text holds exactly one tool call of the documented format, and it
\* decodes
HoldsOneCall(response) ==
    LET w == FirstMatch(WirePattern, response)
    IN  /\ w.found
        /\ w.json.ok
        /\ ~Search(WirePattern, w.after).found

\* the text holds no tool call: nothing in it has the shape of one, or what
\* has the shape does not decode
HoldsNoCall(response) ==
    LET w == FirstMatch(WirePattern, response)
        c == FirstMatch(json_pattern, response)
    IN  /\ w.found => ~w.json.ok
        /\ c.found => ~c.json.ok

\* C11: from a text holding exactly one well-formed tool call
\* {"tool":"X","parameters":{...}} the extractor returns tool name X, the
\* decoded parameters, and the text with exactly that substring removed.
C11_ParsesCall ==
    \A k \in 1..Len(obs.replies) :
        HoldsOneCall(obs.replies[k]) =>
            LET w == FirstMatch(WirePattern, obs.replies[k])
            IN  ExtractToolCall(obs.replies[k]) =
                    [tool_name  |-> DictGet(w.json.val.v, <<"tool">>, None),
                     parameters |-> DictGet(w.json.val.v, <<"parameters">>, None),
                     cleaned    |-> Text(w.before \o w.after, obs.replies[k].pad)]

\* C12: from a text holding no tool call (no substring of the shape, or a
\* substring of the shape that does not decode, a "tool" key without
\* "parameters" included) the extractor returns no tool name, no parameters
\* and the text unchanged, and the turn goes the no-tool way: one generation
\* call, no tool executed, the text recorded and returned as it came.
C12_NoCallPassesThrough ==
    (obs.op = "chat_returns" /\ HoldsNoCall(obs.replies[1])) =>
        /\ ExtractToolCall(obs.replies[1])
              = [tool_name |-> None, parameters |-> None, cleaned |-> obs.replies[1]]
        /\ obs.outcome = "returned"
        /\ Len(obs.calls) = 1
        /\ obs.execs = <<>>
        /\ obs.value = <<obs.replies[1]>>
        /\ messages[Len(messages)] = Message("assistant", obs.replies[1])

\* a turn has returned a text in which the documented shape is found and
\* does not decode, followed by more text, and recorded it whole
C12_Witness ==
    /\ obs.op = "chat_returns"
    /\ HoldsNoCall(obs.replies[1])
    /\ FirstMatch(WirePattern, obs.replies[1]).found
    /\ FirstMatch(WirePattern, obs.replies[1]).after # <<>>
    /\ messages[Len(messages)] = Message("assistant", obs.replies[1])

\* the text _execute_tool returns when executing the call fails: no tool of
\* the registry has the name, or the first that has it raises
FailureText(tls, tool_name, parameters) ==
    LET i == FirstNamed(tls, tool_name)
    IN  IF i = 0 THEN <<UnknownText(tool_name)>>
        ELSE IF CallTool(tls[i], parameters).raised
             THEN <<ErrorText(tool_name, CallTool(tls[i], parameters).text)>>
             ELSE <<>>

\* C13: a turn whose primary response holds a tool call that names an
\* unregistered tool, or a tool whose capability raises, is not aborted: it
\* appends the system message carrying the error text ("Unknown tool: <name>"
\* or "Error executing tool '<name>': <cause>"), issues the follow-up
\* generation call, and returns the follow-up response.
C13_ToolFailureContinues ==
    LET call  == WireCallOf(obs.replies[1])
        error == FailureText(tools, call.tool_name, call.parameters)
    IN  (obs.op = "chat_returns" /\ HoldsOneCall(obs.replies[1]) /\ error # <<>>) =>
            /\ Len(obs.calls) = 2
            /\ obs.outcome # "raised"
            /\ \E i \in 1..Len(messages) :
                  messages[i] = Message("system",
                                        ToolOutputText(call.tool_name, error[1]))
            /\ Len(obs.replies) = 1 => pc = "chat_followup"
            /\ Len(obs.replies) = 2 => obs.value = <<obs.replies[2]>>

\* C14: _execute_tool with a name no tool of the registry has returns
\* "Unknown tool: <name>", runs no tool's function and raises nothing,
\* whatever the registry and the parameters.
C14_UnknownTool ==
    (obs.op = "execute_tool" /\ FirstNamed(tools, obs.execs[1].tool_name) = 0) =>
        /\ obs.execs[1].result = UnknownText(obs.execs[1].tool_name)
        /\ obs.execs[1].ran = <<>>
        /\ ~obs.execs[1].raised
        /\ obs.value = <<UnknownText(obs.execs[1].tool_name)>>

\* a name differing from a registered one only in case, with parameters that
\* would fit, on a registry of several tools
C14_Witness ==
    /\ obs.op = "execute_tool"
    /\ Len(tools) > 1
    /\ FirstNamed(tools, obs.execs[1].tool_name) = 0
    /\ obs.execs[1].tool_name = Str(<<"Calc">>)
    /\ obs.execs[1].parameters.t = "dict"
    /\ Keys(obs.execs[1].parameters) = {<<"x">>}
    /\ obs.value = <<UnknownText(Str(<<"Calc">>))>>

\* C15: _execute_tool with a registered name raises nothing: when the tool's
\* call raises (its function raises, or the parameters do not fit its
\* signature) it returns "Error executing tool '<name>': <cause>", and
\* otherwise exactly what the tool returned.
C15_RegisteredTool ==
    LET e == obs.execs[1]
        i == FirstNamed(tools, e.tool_name)
        r == CallTool(tools[i], e.parameters)
    IN  (obs.op = "execute_tool" /\ i # 0) =>
            /\ ~e.raised
            /\ obs.outcome = "returned"
            /\ r.raised => obs.value = <<ErrorText(e.tool_name, r.text)>>
            /\ ~r.raised => obs.value = <<tools[i].out>> /\ e.ran = <<tools[i].name>>
            /\ ~r.ran => e.ran = <<>>

\* a registered tool was called with a keyword its function does not take,
\* and the TypeError came back as text
C15_Witness ==
    /\ obs.op = "execute_tool"
    /\ FirstNamed(tools, obs.execs[1].tool_name) # 0
    /\ obs.execs[1].parameters.t = "dict"
    /\ <<"y">> \in Keys(obs.execs[1].parameters)
    /\ obs.execs[1].ran = <<>>
    /\ obs.value = <<ErrorText(obs.execs[1].tool_name, TypeErrorText)>>

\* C16: an agent is never built on a tool list in which two tools have the
\* same name (such a list is rejected at construction), so a name resolves
\* to at most one tool.
C16_UniqueNames ==
    \A i, j \in 1..Len(tools) : tools[i].name = tools[j].name => i = j

\* C17: get_last_n_messages(n), n >= 0, returns exactly the last min(n, L)
\* messages of a memory of L messages, as role/content pairs in their order
\* (none for n = 0, all for n >= L), and leaves the memory as it was.
C17_Tail ==
    obs.op = "get_last_n_messages" =>
        LET n    == obs.value[1].n
            len  == Len(obs.pre)
            keep == Min(n, len)
        IN  /\ obs.value[1].result
                  = [k \in 1..keep |->
                        [role |-> obs.pre[len - keep + k].role,
                         content |-> obs.pre[len - keep + k].content]]
            /\ messages = obs.pre

\* the memory after thread a's turn and then thread b's, each run whole
\* with the input and the replies it had
Sequential(a, b) ==
    RunTurn(RunTurn(obs.pre, tools, obs.input[a], obs.replies[a]),
            tools, obs.input[b], obs.replies[b])

\* C18: two turns interleaved on one agent's memory reach an outcome no
\* sequential execution of the two produces: when the second starts before
\* the first's generation call has returned and both return, the memory is
\* neither order's sequential memory; both user messages precede both
\* assistant messages, and the second call's message list ends with the
\* other turn's user message followed by its own.
C18_NotSerializable ==
    (obs.overlapped /\ \A t \in Threads : obs.outcome[t] = "returned") =>
        LET first  == obs.started[1]
            second == obs.started[2]
            users  == <<User(obs.input[first]), User(obs.input[second])>>
        IN  /\ \A a \in Threads : \A b \in Threads \ {a} :
                  messages # Sequential(a, b).messages
            /\ obs.calls[second][1] = GetChatMessages(obs.pre) \o users
            /\ Len(messages) = Len(obs.pre.messages) + 4
            /\ SubSeq(messages, 1, Len(messages) - 2) = obs.pre.messages \o users
            /\ messages[Len(messages) - 1].role = "assistant"
            /\ messages[Len(messages)].role = "assistant"

\* both turns have returned, the second having started while the first
\* waited for its reply, and the first's reply was recorded last
C18_Witness ==
    /\ obs.overlapped
    /\ \A t \in Threads : obs.outcome[t] = "returned"
    /\ obs.input[1] # obs.input[2]
    /\ messages[Len(messages)] = Message("assistant", obs.replies[obs.started[1]][1])
    /\ messages[Len(messages) - 1] = Message("assistant", obs.replies[obs.started[2]][1])
    /\ \A a \in Threads : \A b \in Threads \ {a} : messages # Sequential(a, b).messages

\* C19: of two agents, whatever turns, failed turns and resets are
\* interleaved on them, an operation on one leaves the other's memory
\* sequence, token count, system prompt and tool list as they were, and each
\* agent's state is the state its own operations alone give it.
C19_Isolated ==
    \A a \in Agents :
        /\ AgentState(a) = obs.alone[a]
        /\ obs.actor \notin {0, a} => AgentState(a) = obs.before[a]

\* agent 2 has just been reset after a failed turn, agent 1 having returned
\* from a turn, and agent 1's memory still ends with that turn's reply
C19_Witness ==
    /\ obs.op = "reset"
    /\ obs.actor = 2
    /\ "raised" \in obs.seen[2]
    /\ "returned" \in obs.seen[1]
    /\ "reset" \notin obs.seen[1]
    /\ messages[MemoryOf(1)][Len(messages[MemoryOf(1)])].role = "assistant"
    /\ messages[MemoryOf(2)] = <<Message("system", IsoPrompt(2))>>

\* C20: in a turn whose primary response holds a tool call the steps come in
\* this order: append the user message; primary generation call; append
\* assistant(residual); execute the tool; append the system tool-output
\* message; follow-up generation call; append assistant(follow-up).  So the
\* primary call is sent the memory ending with the user message, the tool
\* runs on a memory that ends with the assistant residual, and the follow-up
\* call is sent that memory with the tool-output message appended.
C20_ToolBranchOrder ==
    (obs.op = "chat_returns" /\ HoldsOneCall(obs.replies[1]) /\ ~obs.evicted) =>
        LET call   == WireCallOf(obs.replies[1])
            asked  == obs.pre \o <<User(obs.input)>>
            atTool == asked \o <<Message("assistant", call.cleaned)>>
        IN  /\ obs.calls[1] = asked
            /\ Len(obs.execs) = 1
            /\ obs.execs[1].memory = atTool
            /\ Len(obs.calls) = 2
            /\ obs.calls[2] = atTool \o
                  <<Message("system", ToolOutputText(call.tool_name,
                                                     obs.execs[1].result))>>
            /\ Len(obs.replies) = 2 =>
                  messages = obs.calls[2] \o <<Message("assistant", obs.replies[2])>>

\* C21: from a text holding several tool calls of the documented format the
\* extractor takes the first and returns the text with that first span
\* alone removed: a later call, one identical to the first included, stays
\* in the residual text.
C21_FirstMatchOnly ==
    \A k \in 1..Len(obs.replies) :
        LET w == FirstMatch(WirePattern, obs.replies[k])
        IN  (w.found /\ w.json.ok /\ Search(WirePattern, w.after).found) =>
                ExtractToolCall(obs.replies[k]) =
                    [tool_name  |-> DictGet(w.json.val.v, <<"tool">>, None),
                     parameters |-> DictGet(w.json.val.v, <<"parameters">>, None),
                     cleaned    |-> Text(w.before \o w.after, obs.replies[k].pad)]

C24_TurnCompletes ==
    \A k \in 1..MaxTurns :
        (obs.turns = k /\ pc # "idle")
            ~> (obs.turns = k /\ pc = "idle" /\ obs.outcome \in {"returned", "raised"})

\* a turn whose append evicted has come to its end
C24_Witness ==
    /\ pc = "idle"
    /\ obs.outcome = "returned"
    /\ obs.evicted
    /\ obs.turns = MaxTurns

\* C25: the pattern of _extract_tool_call never yields a tool call: for
\* every response the function returns no tool name, no parameters and the
\* response itself, since whatever the pattern matches starts with a brace
\* followed by a backslash and does not decode; so process_user_input
\* executes no tool and issues no second generation call.
C25_NeverYieldsCall ==
    /\ \A k \in 1..Len(obs.replies) :
          LET r == obs.replies[k]
              c == FirstMatch(json_pattern, r)
          IN  /\ ExtractToolCall(r) = [tool_name |-> None, parameters |-> None,
                                       cleaned |-> r]
              /\ c.found =>
                    /\ r.body[Len(c.before) + 1] = "{"
                    /\ r.body[Len(c.before) + 2] = BS
                    /\ ~c.json.ok
    /\ obs.execs = <<>>
    /\ Len(obs.calls) <= 1
    /\ pc # "chat_followup"

\* a turn has returned, after one generation call and no tool, a text in
\* which the pattern matches and which goes on with a well-formed call
C25_Witness ==
    /\ obs.outcome = "returned"
    /\ Len(obs.calls) = 1
    /\ obs.execs = <<>>
    /\ FirstMatch(json_pattern, obs.replies[1]).found
    /\ FirstMatch(WirePattern, obs.replies[1]).found
    /\ FirstMatch(WirePattern, obs.replies[1]).json.ok
    /\ obs.value = <<obs.replies[1]>>

\* C26: after every append the message just appended is the last of the
\* memory: eviction never removes the newest message, not even when that
\* message alone is over the budget.
C26_NewestKept ==
    obs.op = "add_message" =>
        /\ messages # <<>>
        /\ messages[Len(messages)] = obs.log[Len(obs.log)]

\* an append of a message that alone is over the budget has evicted, and
\* the message is the last of the memory
C26_Witness ==
    /\ obs.op = "add_message"
    /\ obs.evicted
    /\ FGtInt(Cost(obs.log[Len(obs.log)]), max_tokens)
    /\ messages[Len(messages)] = obs.log[Len(obs.log)]

\* C27: the memory is always a contiguous suffix, in their order, of the
\* messages appended since the last clear: eviction removes the oldest
\* message only, none from the middle, and alters or reorders none.
C27_ContiguousSuffix ==
    IsSuffix(messages, obs.log)

\* an append has evicted the oldest message, and more than 3 messages of
\* different lengths are left
C27_Witness ==
    /\ obs.evicted
    /\ Len(obs.log) > Len(messages)
    /\ Len(messages) > 3
    /\ messages[3] # messages[4]
    /\ messages = SubSeq(obs.log, 2, Len(obs.log))

\* token_count after the first j messages of m were evicted
RECURSIVE CountAfter(_, _)
CountAfter(m, j) ==
    IF j = 0 THEN m.token_count
    ELSE FSub(CountAfter(m, j - 1), Cost(m.messages[j]))

\* C28: eviction is minimal.  An append that leaves token_count at most
\* max_tokens removes nothing; an append that evicts removes the oldest
\* messages one by one and stops as soon as token_count <= max_tokens or 3
\* messages are left, so every message it removed was removed with
\* token_count over max_tokens, the last one included.
C28_MinimalEviction ==
    [][ obs'.op = "add_message" =>
          LET new   == obs'.log[Len(obs'.log)]
              grown == [messages    |-> Append(messages, new),
                        token_count |-> FAdd(token_count, Cost(new)),
                        max_tokens  |-> max_tokens]
              k     == Len(grown.messages) - Len(messages')
          IN  /\ k >= 0
              /\ messages' = SubSeq(grown.messages, k + 1, Len(grown.messages))
              /\ token_count' = CountAfter(grown, k)
              /\ ~FGtInt(grown.token_count, max_tokens) => k = 0
              /\ \A j \in 0..(k - 1) :
                    /\ FGtInt(CountAfter(grown, j), max_tokens)
                    /\ Len(grown.messages) - j > 3
              /\ k > 0 => FGtInt(FAdd(token_count', Cost(grown.messages[k])),
                                 max_tokens)
              /\ ~FGtInt(token_count', max_tokens) \/ Len(messages') <= 3
      ]_vars

\* an append has evicted and stopped with more than 3 messages left, the
\* budget being met
C28_Witness ==
    /\ obs.op = "add_message"
    /\ obs.evicted
    /\ Len(messages) > 3
    /\ ~FGtInt(token_count, max_tokens)

\* C29: after change_personality with a recognized personality the memory
\* holds exactly one message, the system message with the new prompt, which
\* is the agent's system_prompt; with an unrecognized personality the memory,
\* system_prompt and personality are as they were.
C29_PersonalityChange ==
    obs.op = "change_personality" =>
        IF obs.input.body[1] \in PersonalityNames
        THEN /\ system_prompt = ChatPrompt(obs.input.body[1])
             /\ messages = <<Message("system", system_prompt)>>
        ELSE /\ messages = obs.pre
             /\ <<system_prompt, personality>> = obs.before

====
